---- MODULE Spec2Model ----
(***************************************************************************)
(* Model of CanvasManager (src/src/Canvas.ts): the sprite collection, the  *)
(* selection, the view transform, the pointer/wheel handlers and the JSON  *)
(* export/import of a layout.                                              *)
(*                                                                         *)
(* Numbers.  zoom is kept in thousandths (ZoomScale = 1000 stands for the  *)
(* factor 1), so 0.9, 1.1, 0.1 and 5 are 900, 1100, 100 and 5000; a        *)
(* product or quotient is rounded down to the grid.  World and screen      *)
(* coordinates are integers.  The canvas rectangle is at (0, 0).           *)
(*                                                                         *)
(* Specifications.  Spec issues every event with few documents; SpecIO      *)
(* issues the edits of the collection with every document and catalog;     *)
(* SpecZoom issues any number of wheel events between pointer events.      *)
(*                                                                         *)
(* Identifiers.  A sprite id is a triple <<kind, a, b>>: an imported       *)
(* sprite's `placed-${Date.now()}-${index}` is <<"placed", now, index>>;   *)
(* the id of a sprite handed to addSprite is made by the caller (UI.ts,    *)
(* not part of the sources at hand) and is <<"new", n, 0>>.  null is       *)
(* NoSel.                                                                  *)
(***************************************************************************)
EXTENDS Integers, Sequences, FiniteSets, TLC

VARIABLES sprites, selectedSpriteId, zoom, panX, panY,
          isDragging, dragOffset, isPanning, lastPanPoint,
          now, nextId, wheels, last

vars == <<sprites, selectedSpriteId, zoom, panX, panY,
          isDragging, dragOffset, isPanning, lastPanPoint,
          now, nextId, wheels, last>>

(* ------------------------------ bounds --------------------------------- *)
\* number of addSprite calls explored
MaxAdds == 1
\* last value of the millisecond clock
MaxNow == 1
\* number of wheel events explored in Spec (SpecZoom explores any number)
MaxWheel == 1
\* largest panX, panY explored (0 <= pan <= MaxPan)
MaxPan == 20
\* longest list of records in an enumerated document
MaxRecs == 2

\* screen points of the pointer events
ClientXs == {0, 20}
ClientYs == {0}
\* the sprites handed to addSprite
AddXs == {-5, 0}
AddYs == {0}
AddZs == {0, 7}
\* the sprite handed to addSprite in Spec
CoreAddXs == {-5}
CoreAddZs == {7}
AddSizes == {10}
AddAssets == {"a1"}
\* the catalogs handed to importFromJSON: one resolves every asset id
FullCatalog == {"a1", "a2"}
PartCatalog == {"a1"}
Catalogs == {FullCatalog, PartCatalog}
Buttons == {0, 1, 2}
DeltaYs == {-1, 0, 1}

(* --------------------------- program constants ------------------------- *)
ZoomScale == 1000
ZoomInit == 1000
ZoomMin == 100
ZoomMax == 5000
WheelDown == 900
WheelUp == 1100

NoSel == <<"null", 0, 0>>
Origin == [x |-> 0, y |-> 0]

Max(a, b) == IF a >= b THEN a ELSE b
Min(a, b) == IF a <= b THEN a ELSE b

(* ------------------------------ hit test ------------------------------- *)
Contains(s, p) ==
    /\ p.x >= s.x /\ p.x <= s.x + s.width
    /\ p.y >= s.y /\ p.y <= s.y + s.height

\* a scan from the bottom: the first sprite of ss[1..i] that contains p
MutScanDown(ss, p, i) ==
    LET hits == {k \in 1..i : Contains(ss[k], p)}
    IN IF hits = {} THEN 0 ELSE CHOOSE k \in hits : \A m \in hits : k <= m

\* index of the sprite found scanning from i down to 1; 0 stands for null
RECURSIVE ScanDown(_, _, _)
ScanDown(ss, p, i) ==
    IF i = 0 THEN 0
    ELSE IF Contains(ss[i], p) THEN i
    ELSE ScanDown(ss, p, i - 1)

findSpriteAtPoint(ss, p) == ScanDown(ss, p, Len(ss))

\* the conversion without the pan
MutGetCanvasPoint(cx, cy) ==
    [x |-> ((cx - 0) * ZoomScale) \div zoom,
     y |-> ((cy - 0) * ZoomScale) \div zoom]

getCanvasPoint(cx, cy) ==
    [x |-> ((cx - 0 - panX) * ZoomScale) \div zoom,
     y |-> ((cy - 0 - panY) * ZoomScale) \div zoom]

\* Array.prototype.find: index of the first sprite with the id, 0 if none
RECURSIVE FindFrom(_, _, _)
FindFrom(ss, id, i) ==
    IF i > Len(ss) THEN 0
    ELSE IF ss[i].id = id THEN i
    ELSE FindFrom(ss, id, i + 1)

FindById(ss, id) == FindFrom(ss, id, 1)

\* the filter with the test inverted: keeps the sprites with the id
MutFilterOut(ss, id) == SelectSeq(ss, LAMBDA e : e.id = id)

\* Array.prototype.filter(s => s.id !== id)
RECURSIVE FilterOut(_, _)
FilterOut(ss, id) ==
    IF ss = <<>> THEN <<>>
    ELSE IF Head(ss).id # id THEN <<Head(ss)>> \o FilterOut(Tail(ss), id)
    ELSE FilterOut(Tail(ss), id)

NoJson == [form |-> "none", items |-> <<>>]

\* what the last operation was: its name, for an import its arguments and the
\* number of alerts it raised, for an import or a delete the length n of the
\* collection before it
Op(name) == [op |-> name, json |-> NoJson, cat |-> {}, n |-> 0, alerts |-> 0]

(* ------------------------------- state --------------------------------- *)
Init ==
    /\ sprites = <<>>
    /\ selectedSpriteId = NoSel
    /\ zoom = ZoomInit
    /\ panX = 0
    /\ panY = 0
    /\ isDragging = FALSE
    /\ dragOffset = Origin
    /\ isPanning = FALSE
    /\ lastPanPoint = Origin
    /\ now = 0
    /\ nextId = 0
    /\ wheels = 0
    /\ last = Op("init")

(* --------------------------- pointer handlers -------------------------- *)
\* the handler with the shift test left out: shift + primary selects
MutHandleMouseDown(button, shiftKey, cx, cy) ==
    LET point == getCanvasPoint(cx, cy)
        clicked == findSpriteAtPoint(sprites, point)
    IN
    /\ IF button = 2 \/ button = 1
       THEN /\ isPanning' = TRUE
            /\ lastPanPoint' = [x |-> cx, y |-> cy]
            /\ UNCHANGED <<selectedSpriteId, isDragging, dragOffset>>
       ELSE /\ IF clicked # 0
               THEN /\ selectedSpriteId' = sprites[clicked].id
                    /\ isDragging' = TRUE
                    /\ dragOffset' = [x |-> point.x - sprites[clicked].x,
                                      y |-> point.y - sprites[clicked].y]
               ELSE /\ selectedSpriteId' = NoSel
                    /\ UNCHANGED <<isDragging, dragOffset>>
            /\ UNCHANGED <<isPanning, lastPanPoint>>
    /\ last' = [op |-> "down", json |-> [form |-> "none", items |-> <<>>],
                cat |-> {}, n |-> 0, alerts |-> 0]
    /\ UNCHANGED <<sprites, zoom, panX, panY, now, nextId, wheels>>

handleMouseDown(button, shiftKey, cx, cy) ==
    LET point == getCanvasPoint(cx, cy)
        clicked == findSpriteAtPoint(sprites, point)
    IN
    /\ IF button = 2 \/ button = 1 \/ (button = 0 /\ shiftKey)
       THEN /\ isPanning' = TRUE
            /\ lastPanPoint' = [x |-> cx, y |-> cy]
            /\ UNCHANGED <<selectedSpriteId, isDragging, dragOffset>>
       ELSE /\ IF clicked # 0
               THEN /\ selectedSpriteId' = sprites[clicked].id
                    /\ isDragging' = TRUE
                    /\ dragOffset' = [x |-> point.x - sprites[clicked].x,
                                      y |-> point.y - sprites[clicked].y]
               ELSE /\ selectedSpriteId' = NoSel
                    /\ UNCHANGED <<isDragging, dragOffset>>
            /\ UNCHANGED <<isPanning, lastPanPoint>>
    /\ last' = Op("down")
    /\ UNCHANGED <<sprites, zoom, panX, panY, now, nextId, wheels>>

\* the pan branch of handleMouseMove, shared by its variants below
MutMovePan(cx, cy) ==
    /\ panX' = panX + (cx - lastPanPoint.x)
    /\ panY' = panY + (cy - lastPanPoint.y)
    /\ panX' >= 0 /\ panX' <= MaxPan
    /\ panY' >= 0 /\ panY' <= MaxPan
    /\ lastPanPoint' = [x |-> cx, y |-> cy]
    /\ UNCHANGED sprites

\* the handler with the grab offset left out: the sprite jumps to the pointer
MutMoveNoOffset(cx, cy) ==
    /\ IF isPanning
       THEN MutMovePan(cx, cy)
       ELSE /\ IF isDragging /\ selectedSpriteId # NoSel
               THEN LET point == getCanvasPoint(cx, cy)
                        i == FindById(sprites, selectedSpriteId)
                    IN IF i # 0
                       THEN sprites' = [sprites EXCEPT ![i].x = point.x,
                                                       ![i].y = point.y]
                       ELSE UNCHANGED sprites
               ELSE UNCHANGED sprites
            /\ UNCHANGED <<panX, panY, lastPanPoint>>
    /\ last' = [op |-> "move", json |-> [form |-> "none", items |-> <<>>],
                cat |-> {}, n |-> 0, alerts |-> 0]
    /\ UNCHANGED <<selectedSpriteId, zoom, isDragging, dragOffset, isPanning,
                   now, nextId, wheels>>

\* the handler with the isDragging test left out: a selected sprite follows
\* the pointer although no button is held
MutMoveWhileIdle(cx, cy) ==
    /\ IF isPanning
       THEN MutMovePan(cx, cy)
       ELSE /\ IF selectedSpriteId # NoSel
               THEN LET point == getCanvasPoint(cx, cy)
                        i == FindById(sprites, selectedSpriteId)
                    IN IF i # 0
                       THEN sprites' = [sprites EXCEPT
                                ![i].x = point.x - dragOffset.x,
                                ![i].y = point.y - dragOffset.y]
                       ELSE UNCHANGED sprites
               ELSE UNCHANGED sprites
            /\ UNCHANGED <<panX, panY, lastPanPoint>>
    /\ last' = [op |-> "move", json |-> [form |-> "none", items |-> <<>>],
                cat |-> {}, n |-> 0, alerts |-> 0]
    /\ UNCHANGED <<selectedSpriteId, zoom, isDragging, dragOffset, isPanning,
                   now, nextId, wheels>>

handleMouseMove(cx, cy) ==
    /\ IF isPanning
       THEN /\ panX' = panX + (cx - lastPanPoint.x)
            /\ panY' = panY + (cy - lastPanPoint.y)
            /\ panX' >= 0 /\ panX' <= MaxPan
            /\ panY' >= 0 /\ panY' <= MaxPan
            /\ lastPanPoint' = [x |-> cx, y |-> cy]
            /\ UNCHANGED sprites
       ELSE /\ IF isDragging /\ selectedSpriteId # NoSel
               THEN LET point == getCanvasPoint(cx, cy)
                        i == FindById(sprites, selectedSpriteId)
                    IN IF i # 0
                       THEN sprites' = [sprites EXCEPT
                                ![i].x = point.x - dragOffset.x,
                                ![i].y = point.y - dragOffset.y]
                       ELSE UNCHANGED sprites
               ELSE UNCHANGED sprites
            /\ UNCHANGED <<panX, panY, lastPanPoint>>
    /\ last' = Op("move")
    /\ UNCHANGED <<selectedSpriteId, zoom, isDragging, dragOffset, isPanning,
                   now, nextId, wheels>>

\* the handler that ends the drag only
MutHandleMouseUp ==
    /\ isDragging' = FALSE
    /\ last' = [op |-> "up", json |-> [form |-> "none", items |-> <<>>],
                cat |-> {}, n |-> 0, alerts |-> 0]
    /\ UNCHANGED <<sprites, selectedSpriteId, zoom, panX, panY, dragOffset,
                   isPanning, lastPanPoint, now, nextId, wheels>>

handleMouseUp ==
    /\ isDragging' = FALSE
    /\ isPanning' = FALSE
    /\ last' = Op("up")
    /\ UNCHANGED <<sprites, selectedSpriteId, zoom, panX, panY, dragOffset,
                   lastPanPoint, now, nextId, wheels>>

\* the clamp without its upper limit
MutClamp(z) == Max(ZoomMin, z)

\* Math.max(0.1, Math.min(5, z))
Clamp(z) == Max(ZoomMin, Min(ZoomMax, z))

\* the factors the wrong way round
MutWheelZoom(z, deltaY) ==
    LET delta == IF deltaY > 0 THEN WheelUp ELSE WheelDown
    IN Max(ZoomMin, Min(ZoomMax, (z * delta) \div ZoomScale))

WheelZoom(z, deltaY) ==
    LET delta == IF deltaY > 0 THEN WheelDown ELSE WheelUp
    IN Clamp((z * delta) \div ZoomScale)

handleWheel(deltaY) ==
    /\ zoom' = WheelZoom(zoom, deltaY)
    /\ last' = Op("wheel")
    /\ UNCHANGED <<sprites, selectedSpriteId, panX, panY, isDragging,
                   dragOffset, isPanning, lastPanPoint, now, nextId>>

\* a wheel event counted against MaxWheel
CountedWheel(deltaY) ==
    /\ wheels < MaxWheel
    /\ wheels' = wheels + 1
    /\ handleWheel(deltaY)

\* a wheel event that is not counted
FreeWheel(deltaY) ==
    /\ UNCHANGED wheels
    /\ handleWheel(deltaY)

(* --------------------------- collection edits -------------------------- *)
NewId(n) == <<"new", n, 0>>

\* unshift instead of push: the new sprite goes to the bottom
MutAddSprite(sprite) ==
    /\ sprites' = <<sprite>> \o sprites
    /\ last' = [op |-> "add", json |-> [form |-> "none", items |-> <<>>],
                cat |-> {}, n |-> 0, alerts |-> 0]
    /\ UNCHANGED <<selectedSpriteId, zoom, panX, panY, isDragging, dragOffset,
                   isPanning, lastPanPoint, now, wheels>>

addSprite(sprite) ==
    /\ sprites' = Append(sprites, sprite)
    /\ last' = Op("add")
    /\ UNCHANGED <<selectedSpriteId, zoom, panX, panY, isDragging, dragOffset,
                   isPanning, lastPanPoint, now, wheels>>

\* the caller of addSprite: builds a PlacedSprite with a generated id
AddNew(asset, x, y, size, z) ==
    /\ nextId < MaxAdds
    /\ nextId' = nextId + 1
    /\ addSprite([id |-> NewId(nextId), spriteData |-> asset, x |-> x, y |-> y,
                  width |-> size, height |-> size,
                  rotation |-> 0, zIndex |-> z])

deleteSelectedSprite ==
    /\ IF selectedSpriteId # NoSel
       THEN /\ sprites' = FilterOut(sprites, selectedSpriteId)
            /\ selectedSpriteId' = NoSel
       ELSE UNCHANGED <<sprites, selectedSpriteId>>
    /\ last' = [Op("delete") EXCEPT !.n = Len(sprites)]
    /\ UNCHANGED <<zoom, panX, panY, isDragging, dragOffset, isPanning,
                   lastPanPoint, now, nextId, wheels>>

clearCanvas ==
    /\ sprites' = <<>>
    /\ selectedSpriteId' = NoSel
    /\ last' = Op("clear")
    /\ UNCHANGED <<zoom, panX, panY, isDragging, dragOffset, isPanning,
                   lastPanPoint, now, nextId, wheels>>


(* ---------------------------- export / import -------------------------- *)
\* A JSON text is [form, items]: form "notjson" is text JSON.parse rejects,
\* "null" the text null, "nosprites" an object without the sprites field,
\* "notlist" an object whose sprites is a number, "list" an object whose
\* sprites is the array items.  A record of the array is null (isNull) or an
\* object; an optional field is <<>> when absent and <<v>> when present.
Rec(sid, x, y, w, h, rot, z) ==
    [isNull |-> FALSE, spriteId |-> sid, x |-> x, y |-> y,
     width |-> w, height |-> h, rotation |-> rot, zIndex |-> z]

NullRec == [isNull |-> TRUE, spriteId |-> "", x |-> 0, y |-> 0,
            width |-> 0, height |-> 0, rotation |-> <<>>, zIndex |-> <<>>]

\* an export that writes x and y the wrong way round
MutExportToJSON(ss) ==
    [form |-> "list",
     items |-> [i \in 1..Len(ss) |->
                   Rec(ss[i].spriteData, ss[i].y, ss[i].x, ss[i].width,
                       ss[i].height, <<ss[i].rotation>>, <<ss[i].zIndex>>)]]

exportToJSON(ss) ==
    [form |-> "list",
     items |-> [i \in 1..Len(ss) |->
                   Rec(ss[i].spriteData, ss[i].x, ss[i].y, ss[i].width,
                       ss[i].height, <<ss[i].rotation>>, <<ss[i].zIndex>>)]]

JSONparse(json) == [threw |-> json.form = "notjson", data |-> json]

\* spriteManager.getSpriteById: the asset, or <<>> for undefined
getSpriteById(cat, sid) == IF sid \in cat THEN <<sid>> ELSE <<>>

\* JavaScript a || b on an optional number: b when a is absent or 0
JsOr(opt, d) == IF opt = <<>> \/ opt[1] = 0 THEN d ELSE opt[1]

\* an id without the index
MutImportId(t, index) == <<"placed", t, 0>>

ImportId(t, index) == <<"placed", t, index>>

\* the callback without the test of spriteData: every record is pushed
MutImportOne(spriteInfo, index, cat, t) ==
    <<[id |-> ImportId(t, index), spriteData |-> spriteInfo.spriteId,
       x |-> spriteInfo.x, y |-> spriteInfo.y,
       width |-> spriteInfo.width, height |-> spriteInfo.height,
       rotation |-> JsOr(spriteInfo.rotation, 0),
       zIndex |-> JsOr(spriteInfo.zIndex, index)]>>

\* the forEach callback, index counted from 0
ImportOne(spriteInfo, index, cat, t) ==
    LET spriteData == getSpriteById(cat, spriteInfo.spriteId)
    IN IF spriteData # <<>>
       THEN <<[id |-> ImportId(t, index), spriteData |-> spriteData[1],
               x |-> spriteInfo.x, y |-> spriteInfo.y,
               width |-> spriteInfo.width, height |-> spriteInfo.height,
               rotation |-> JsOr(spriteInfo.rotation, 0),
               zIndex |-> JsOr(spriteInfo.zIndex, index)]>>
       ELSE <<>>

\* data.sprites.forEach from position i (1-based) on, acc the collection so
\* far; reading a field of a null record throws and ends the loop
RECURSIVE ForEach(_, _, _, _, _)
ForEach(items, i, cat, t, acc) ==
    IF i > Len(items) THEN [out |-> acc, threw |-> FALSE]
    ELSE IF items[i].isNull THEN [out |-> acc, threw |-> TRUE]
    ELSE ForEach(items, i + 1, cat, t, acc \o ImportOne(items[i], i - 1, cat, t))

\* the collection and the number of alerts importFromJSON ends with
ImportResult(ss, json, cat, t) ==
    LET parsed == JSONparse(json)
    IN IF parsed.threw THEN [out |-> ss, alerts |-> 1]
       ELSE IF parsed.data.form # "list" THEN [out |-> <<>>, alerts |-> 1]
       ELSE LET r == ForEach(parsed.data.items, 1, cat, t, <<>>)
            IN [out |-> r.out, alerts |-> IF r.threw THEN 1 ELSE 0]

importFromJSON(json, cat) ==
    LET r == ImportResult(sprites, json, cat, now)
    IN /\ sprites' = r.out
       /\ last' = [op |-> "import", json |-> json, cat |-> cat,
                   n |-> Len(sprites), alerts |-> r.alerts]
       /\ UNCHANGED <<selectedSpriteId, zoom, panX, panY, isDragging,
                      dragOffset, isPanning, lastPanPoint, now, nextId, wheels>>

\* Save then load: the document exportToJSON produces is imported at once
exportThenImport(cat) == importFromJSON(exportToJSON(sprites), cat)

\* the millisecond clock Date.now() reads moves on between two operations
Tick ==
    /\ now < MaxNow
    /\ now' = now + 1
    /\ UNCHANGED <<sprites, selectedSpriteId, zoom, panX, panY, isDragging,
                   dragOffset, isPanning, lastPanPoint, nextId, wheels, last>>

\* the documents explored
Malformed == {[form |-> f, items |-> <<>>] :
                 f \in {"notjson", "null", "nosprites", "notlist"}}
Recs == {Rec("a1", 0, 0, 10, 10, <<>>, <<>>),
         Rec("a1", 0, 0, 10, 10, <<90>>, <<0>>),
         Rec("a2", 0, 0, 10, 10, <<0>>, <<7>>),
         NullRec}
RECURSIVE SeqsUpTo(_, _)
SeqsUpTo(S, n) ==
    IF n = 0 THEN {<<>>}
    ELSE LET shorter == SeqsUpTo(S, n - 1)
         IN shorter \cup {Append(q, e) : q \in shorter, e \in S}
Lists == {[form |-> "list", items |-> q] : q \in SeqsUpTo(Recs, MaxRecs)}
Docs == Malformed \cup Lists

CoreDocs == {[form |-> "nosprites", items |-> <<>>],
             [form |-> "list", items |-> <<Rec("a1", 0, 0, 10, 10, <<>>, <<>>)>>]}

(* --------------------------- specifications ---------------------------- *)
\* every handler; few documents
Next ==
    \/ \E b \in Buttons, sh \in BOOLEAN, cx \in ClientXs, cy \in ClientYs :
          handleMouseDown(b, sh, cx, cy)
    \/ \E cx \in ClientXs, cy \in ClientYs : handleMouseMove(cx, cy)
    \/ handleMouseUp
    \/ \E d \in DeltaYs : CountedWheel(d)
    \/ \E a \in AddAssets, x \in CoreAddXs, y \in AddYs, w \in AddSizes, z \in CoreAddZs :
          AddNew(a, x, y, w, z)
    \/ deleteSelectedSprite
    \/ clearCanvas
    \/ \E json \in CoreDocs : importFromJSON(json, FullCatalog)
    \/ exportThenImport(FullCatalog)
    \/ Tick

Spec == Init /\ [][Next]_vars

\* editing and documents: primary-button pointer-down and pointer-up (select),
\* every edit of the collection, every document and catalog
NextIO ==
    \/ \E cx \in ClientXs, cy \in ClientYs : handleMouseDown(0, FALSE, cx, cy)
    \/ handleMouseUp
    \/ \E a \in AddAssets, x \in AddXs, y \in AddYs, w \in AddSizes, z \in AddZs :
          AddNew(a, x, y, w, z)
    \/ deleteSelectedSprite
    \/ clearCanvas
    \/ \E json \in Docs, cat \in Catalogs : importFromJSON(json, cat)
    \/ \E cat \in Catalogs : exportThenImport(cat)
    \/ Tick

SpecIO == Init /\ [][NextIO]_vars

\* the view: any number of wheel events between pointer events
NextZoom ==
    \/ \E d \in DeltaYs : FreeWheel(d)
    \/ \E b \in Buttons, sh \in BOOLEAN, cx \in ClientXs, cy \in ClientYs :
          handleMouseDown(b, sh, cx, cy)
    \/ \E cx \in ClientXs, cy \in ClientYs : handleMouseMove(cx, cy)
    \/ handleMouseUp

SpecZoom == Init /\ [][NextZoom]_vars

(* ------------------------------- claims -------------------------------- *)
Idx(ss) == 1..Len(ss)

\* a step of importFromJSON, with the arguments last' records
ImportStep == last'.op = "import" /\ importFromJSON(last'.json, last'.cat)

\* no record of the list is null
WellFormed(json) ==
    json.form = "list" /\ \A i \in Idx(json.items) : ~json.items[i].isNull

SameBox(a, b) ==
    a.x = b.x /\ a.y = b.y /\ a.width = b.width /\ a.height = b.height

RemoveAt(ss, i) == SubSeq(ss, 1, i - 1) \o SubSeq(ss, i + 1, Len(ss))

\* C1: an import of a structurally malformed document (not JSON, null, no
\* sprites field, sprites not a list) raises one alert and leaves the
\* collection as it was.
C1_MalformedImportLeavesCollection ==
    [][ImportStep /\ last'.json \in Malformed
          => last'.alerts = 1 /\ sprites' = sprites]_vars

\* C2: an import of a document whose sprites field is a list either fails and
\* leaves the previous collection, or succeeds and installs the list built
\* from all its records; never a prefix of them.
C2_ImportAtomic ==
    [][ImportStep /\ last'.json.form = "list"
          => \/ last'.alerts = 1 /\ sprites' = sprites
             \/ /\ last'.alerts = 0
                /\ sprites' = ForEach(last'.json.items, 1, last'.cat, now, <<>>).out
                /\ WellFormed(last'.json)]_vars

\* C3: the selection is empty or is the id of a sprite of the collection.
C3_SelectionNamesSprite ==
    \/ selectedSpriteId = NoSel
    \/ \E i \in Idx(sprites) : sprites[i].id = selectedSpriteId

C5_DeleteRemovesSelected ==
    [][\A i \in Idx(sprites) :
          deleteSelectedSprite /\ sprites[i].id = selectedSpriteId
             => /\ selectedSpriteId' = NoSel
                /\ Len(sprites') = Len(sprites) - 1
                /\ sprites' = RemoveAt(sprites, i)]_vars

\* C5 witness: a delete has shortened a collection of at least two by one.
C5_Witness ==
    /\ last.op = "delete"
    /\ last.n >= 2
    /\ Len(sprites) = last.n - 1
    /\ selectedSpriteId = NoSel

\* C6: the zoom is within [0.1, 5.0].
C6_ZoomInRange == zoom >= ZoomMin /\ zoom <= ZoomMax

\* C6 witness: a wheel event has brought the zoom to the upper limit while a
\* pan is under way.
C6_Witness == last.op = "wheel" /\ zoom = ZoomMax /\ isPanning

\* C7: for every world point, the hit test returns the last sprite of the
\* collection whose closed box contains the point, whatever the zIndex
\* values, and null exactly when no box contains it.
PointXs == {-6, -5, 0, 5, 6, 10, 11}
PointYs == {-1, 0, 10, 11}
C8_RoundTripBoxes ==
    [][ImportStep /\ last'.json = exportToJSON(sprites)
                  /\ (\A i \in Idx(sprites) : sprites[i].spriteData \in last'.cat)
          => /\ Len(sprites') = Len(sprites)
             /\ \A i \in Idx(sprites) : SameBox(sprites'[i], sprites[i])]_vars

\* C8 witness: an exported document of two sprites, the second one added at
\* x = -5 (no enumerated document has that x), has been imported.
C8_Witness ==
    /\ last.op = "import"
    /\ last.alerts = 0
    /\ Len(last.json.items) = 2
    /\ last.json.items[2].x = -5
    /\ Len(sprites) = 2
    /\ sprites[2].x = -5

\* the records whose asset id the catalog resolves, in document order
Resolved(items, cat) == SelectSeq(items, LAMBDA r : r.spriteId \in cat)

\* C9: importing a well-formed document raises no alert and gives exactly the
\* records whose asset id the catalog resolves, in document order.
C9_UnresolvedDropped ==
    [][ImportStep /\ WellFormed(last'.json)
          => LET res == Resolved(last'.json.items, last'.cat)
             IN /\ last'.alerts = 0
                /\ Len(sprites') = Len(res)
                /\ \A k \in Idx(res) :
                      /\ sprites'[k].spriteData = res[k].spriteId
                      /\ SameBox(sprites'[k], res[k])]_vars

\* C9 witness: of two records the first was unknown to the catalog and only
\* the second was imported, without an alert.
C9_Witness ==
    /\ last.op = "import"
    /\ last.alerts = 0
    /\ last.cat = PartCatalog
    /\ WellFormed(last.json)
    /\ Len(last.json.items) = 2
    /\ last.json.items[1].spriteId = "a2"
    /\ Len(sprites) = 1
    /\ sprites[1].spriteData = "a1"

\* C10: an imported record keeps the zIndex and the rotation the document
\* gives it, 0 included; the defaults (rotation 0, zIndex = array index) are
\* used only when the field is absent.
C10_ZIndexKept ==
    [][ImportStep /\ WellFormed(last'.json)
                  /\ (\A i \in Idx(last'.json.items) :
                         last'.json.items[i].spriteId \in last'.cat)
          => /\ Len(sprites') = Len(last'.json.items)
             /\ \A i \in Idx(last'.json.items) :
                   LET r == last'.json.items[i]
                   IN /\ sprites'[i].zIndex =
                            (IF r.zIndex = <<>> THEN i - 1 ELSE r.zIndex[1])
                      /\ sprites'[i].rotation =
                            (IF r.rotation = <<>> THEN 0 ELSE r.rotation[1])]_vars

(* ------------------------- the interaction state ------------------------ *)
\* the interaction state as the two flags of the class hold it
Idle == ~isDragging /\ ~isPanning

\* the world point of a client point, written out from pan and zoom
WorldPoint(cx, cy) ==
    [x |-> ((cx - panX) * ZoomScale) \div zoom,
     y |-> ((cy - panY) * ZoomScale) \div zoom]

Hits(p) == {i \in Idx(sprites) : Contains(sprites[i], p)}

\* the last sprite in paint order whose box holds p
Topmost(p) == CHOOSE i \in Hits(p) : \A j \in Hits(p) : j <= i

PanButton(button, shiftKey) ==
    button = 1 \/ button = 2 \/ (button = 0 /\ shiftKey)

\* C11: a pointer-up ends the interaction: after it neither flag is set,
\* whatever state it arrived in, and the pointer-move that follows it
\* changes no sprite and no pan.
C11_PointerUpIdle ==
    [][/\ handleMouseUp => ~isDragging' /\ ~isPanning'
       /\ last.op = "up" /\ last'.op = "move" =>
             sprites' = sprites /\ panX' = panX /\ panY' = panY]_vars

\* a pointer-up has acted after a drag and a pan both took place
C11_Witness ==
    /\ last.op = "up"
    /\ Idle
    /\ dragOffset # Origin
    /\ panX # 0
    /\ \E i \in Idx(sprites) : sprites[i].id = selectedSpriteId

\* C12: a primary pointer-down without modifier that hits no sprite clears
\* the selection and leaves no drag active, whatever came before it.
C12_MissClearsAndNoDrag ==
    [][last'.op = "down" =>
         \A cx \in ClientXs, cy \in ClientYs :
            handleMouseDown(0, FALSE, cx, cy) /\ Hits(WorldPoint(cx, cy)) = {}
               => selectedSpriteId' = NoSel /\ ~isDragging']_vars

\* C13: a primary pointer-down without modifier on a sprite selects the
\* topmost sprite under the world point, starts the drag with the grab
\* offset world point minus sprite position, and moves no sprite.
C13_HitSelectsAndGrabs ==
    [][last'.op = "down" =>
         \A cx \in ClientXs, cy \in ClientYs :
            LET p == WorldPoint(cx, cy) IN
            handleMouseDown(0, FALSE, cx, cy) /\ Hits(p) # {}
               => /\ selectedSpriteId' = sprites[Topmost(p)].id
                  /\ isDragging'
                  /\ dragOffset' = [x |-> p.x - sprites[Topmost(p)].x,
                                    y |-> p.y - sprites[Topmost(p)].y]
                  /\ sprites' = sprites]_vars

\* a press under a panned, zoomed view on two overlapping sprites took the
\* upper one with a grab offset that is not zero
C13_Witness ==
    /\ last.op = "down"
    /\ isDragging
    /\ panX # 0
    /\ zoom # ZoomInit
    /\ Len(sprites) = 2
    /\ selectedSpriteId = sprites[2].id
    /\ \E cx \in ClientXs, cy \in ClientYs :
          /\ Hits(WorldPoint(cx, cy)) = {1, 2}
          /\ dragOffset = [x |-> WorldPoint(cx, cy).x - sprites[2].x,
                           y |-> WorldPoint(cx, cy).y - sprites[2].y]
          /\ dragOffset # Origin

\* C14: a pointer-move during a drag (drag flag set, no pan, the selection
\* names a sprite) puts that sprite at world point minus grab offset and
\* changes nothing else: its other fields, the other sprites, the order,
\* the selection, the zoom and the pan stay.
C14_DragMovesOnlySelected ==
    [][last'.op = "move" =>
         \A cx \in ClientXs, cy \in ClientYs, i \in Idx(sprites) :
            /\ handleMouseMove(cx, cy)
            /\ isDragging /\ ~isPanning
            /\ sprites[i].id = selectedSpriteId
            => /\ sprites' = [sprites EXCEPT
                     ![i].x = WorldPoint(cx, cy).x - dragOffset.x,
                     ![i].y = WorldPoint(cx, cy).y - dragOffset.y]
               /\ UNCHANGED <<selectedSpriteId, zoom, panX, panY>>]_vars

\* the upper of two sprites was dragged away from where it was grabbed,
\* under a panned and zoomed view, and the lower one is where it was
C14_Witness ==
    /\ last.op = "move"
    /\ isDragging /\ ~isPanning
    /\ panX # 0
    /\ zoom # ZoomInit
    /\ Len(sprites) = 2
    /\ selectedSpriteId = sprites[2].id
    /\ dragOffset # Origin
    /\ sprites[1].x = 0
    /\ \E cx \in ClientXs, cy \in ClientYs :
          /\ sprites[2].x = WorldPoint(cx, cy).x - dragOffset.x
          /\ ~Contains(sprites[1], WorldPoint(cx, cy))

\* C15: a pointer-down with the middle or secondary button, or with the
\* primary button and shift, starts the pan and records the client point;
\* the collection is untouched, also when the point is over a sprite.
C15_PanDownKeepsSprites ==
    [][last'.op = "down" =>
         \A b \in Buttons, sh \in BOOLEAN, cx \in ClientXs, cy \in ClientYs :
            handleMouseDown(b, sh, cx, cy) /\ PanButton(b, sh)
               => /\ isPanning'
                  /\ lastPanPoint' = [x |-> cx, y |-> cy]
                  /\ sprites' = sprites]_vars

\* a pan was started with the pointer over a sprite, and nothing got selected
C15_Witness ==
    /\ last.op = "down"
    /\ isPanning /\ ~isDragging
    /\ selectedSpriteId = NoSel
    /\ lastPanPoint # Origin
    /\ Hits(WorldPoint(lastPanPoint.x, lastPanPoint.y)) # {}

\* C16: a wheel event multiplies the zoom by 0.9 when scrolling down and by
\* 1.1 when scrolling up, clamps it to [0.1, 5.0], and leaves the pan alone,
\* in whatever interaction state it arrives.
C16_WheelZoomsKeepsPan ==
    [][last'.op = "wheel" =>
         \A d \in DeltaYs :
            handleWheel(d) =>
               /\ d > 0 => zoom' = Max(ZoomMin, Min(ZoomMax, (zoom * WheelDown) \div ZoomScale))
               /\ d < 0 => zoom' = Max(ZoomMin, Min(ZoomMax, (zoom * WheelUp) \div ZoomScale))
               /\ panX' = panX /\ panY' = panY
               /\ isDragging' = isDragging /\ isPanning' = isPanning]_vars

\* the wheel turned down in the middle of a drag, under a panned view
C16_Witness ==
    /\ last.op = "wheel"
    /\ isDragging /\ ~isPanning
    /\ \E i \in Idx(sprites) : sprites[i].id = selectedSpriteId
    /\ panX # 0
    /\ zoom = WheelDown

\* C17: a pointer-move while Idle changes nothing: not the collection, not
\* the selection, not the zoom, not the pan.
C17_IdleMoveChangesNothing ==
    [][last'.op = "move" =>
         \A cx \in ClientXs, cy \in ClientYs :
            handleMouseMove(cx, cy) /\ Idle
               => UNCHANGED <<sprites, selectedSpriteId, zoom, panX, panY>>]_vars

\* the pointer moved while Idle with a sprite selected that is not under it
C17_Witness ==
    /\ last.op = "move"
    /\ Idle
    /\ dragOffset # Origin
    /\ \E i \in Idx(sprites) :
          /\ sprites[i].id = selectedSpriteId
          /\ \A cx \in ClientXs, cy \in ClientYs :
                sprites[i].x # WorldPoint(cx, cy).x - dragOffset.x

\* C18: a drag and a pan are never active at the same time.
C18_DragPanExclusive == ~(isDragging /\ isPanning)

\* C19: while a drag is active the selection names a sprite of the
\* collection.
C19_DragHasSprite ==
    isDragging => \E i \in Idx(sprites) : sprites[i].id = selectedSpriteId

IdsOf(ss) == [i \in Idx(ss) |-> ss[i].id]

SeqRange(q) == {q[i] : i \in Idx(q)}

In(e, S) == e \in S

\* the ids two collections share come in the same order in both
SameRelativeOrder(old, new) ==
    LET keep(q, S) == SelectSeq(q, LAMBDA e : In(e, S))
    IN keep(IdsOf(old), SeqRange(IdsOf(new))) = keep(IdsOf(new), SeqRange(IdsOf(old)))

====
